---- MODULE Spec2Model ----
(***************************************************************************)
(* Guided calibration capture of online-CamCalib.                          *)
(*                                                                         *)
(* The repository holds the frame throttler createTrigger, the pose        *)
(* novelty evaluation getGuidance and three revisions of class Camera:     *)
(*   "models"  src/src/models/camera.ts   novelty-gated capture, no throttle*)
(*   "inline"  src/unnamed/part_000:42    inline throttle, detection only  *)
(*   "matvec"  src/unnamed/part_000:341   createTrigger, MatVector samples *)
(* Beside them stand the hook useCamera (src/src/hooks/camera.ts), whose   *)
(* stream handling Camera.startCamera shares, the capture loop             *)
(* captureWithGuidance (src/unnamed/part_001) and the two Apps that drive  *)
(* Camera.draw.  Timestamps are milliseconds, angles are degrees.          *)
(***************************************************************************)
EXTENDS Integers, Sequences, FiniteSets, TLC

VARIABLES
    version,       \* which revision of class Camera is constructed
    inited,        \* init() has resolved (the caller starts the draw loop then)
    colNum,        \* Camera.colNum
    rowNum,        \* Camera.rowNum
    objp,          \* Camera.objp: number of grid points it holds
    objMat,        \* Camera.objMat: rows of the Mat, 0 for null
    fps,           \* Camera.fps / the fps argument of createTrigger
    now,           \* performance.now() as of the latest call
    lastTime,      \* createTrigger: the closure variable lastTime
    lastDrawTime,  \* Camera.lastDrawTime (inline throttle)
    onGuidance,    \* Camera.onGuidance: "undefined" or "callback"
    anglesHist,    \* Camera.anglesHist: accepted poses
    objectPoints,  \* Camera.objectPoints: one entry (point count) per sample
    imagePoints,   \* Camera.imagePoints: one entry (point count) per sample
    captured,      \* Camera.captured
    objpointsMat,  \* Camera.objpointsMat (MatVector): rows of each pushed Mat
    imgpointsMat,  \* Camera.imgpointsMat (MatVector): rows of each pushed Mat
    prevGray,      \* Camera.prevGray: "null" or "live"
    prevCorners,   \* Camera.prevCorners: "null" or "live"
    evals,         \* history of getGuidance calls: [pose, history, tip]
    calls,         \* history of throttler calls: [t, r]
    op,            \* the latest operation and what it did
    squareSize,    \* Camera.squareSize
    grid,          \* the array prepareObjectPoints returned last
    assigned,      \* the config of the latest blockConfig assignment
    configs,       \* number of blockConfig assignments by the caller
    reported,      \* the errors delivered to the caller's onError
    pending,       \* scheduled requestAnimationFrame(draw) callbacks
    app,           \* which App drives the camera: "loop" or "once"
    stream,        \* this.stream / streamRef.current: a stream id, 0 for none
    tracks,        \* ids of the acquired streams whose tracks are not stopped
    requests,      \* ids of the getUserMedia requests not yet settled
    issued,        \* number of getUserMedia requests made so far
    pc,            \* captureWithGuidance: "idle", "grab", "sleep" or "done"
    numImages,     \* captureWithGuidance: the argument numImages
    videoRef,      \* useCamera: videoRef.current is set
    grabs,         \* captureWithGuidance: number of capture() calls so far
    awaited        \* captureWithGuidance: the timer was awaited since the last grab

vars == <<version, inited, colNum, rowNum, objp, objMat, fps, now, lastTime, lastDrawTime,
          onGuidance, anglesHist, objectPoints, imagePoints, captured,
          objpointsMat, imgpointsMat, prevGray, prevCorners, evals, calls, op,
          squareSize, grid, assigned, configs, reported, pending, app,
          stream, tracks, requests, issued, pc, numImages, videoRef, grabs,
          awaited>>

\* the media-stream fields and the fields of the capture loop
mediaVars == <<stream, tracks, requests, issued>>
hookVars == <<pc, numImages, videoRef, grabs, awaited>>

----------------------------------------------------------------------------
(* Bounds of the model *)

\* longest history handed to getGuidance on its own
MaxHist == 2
\* number of getGuidance calls recorded in one session
MaxEvals == 4
\* number of throttler calls recorded
MaxCalls == 4
\* the clock stops advancing here (ms)
MaxTime == 1700
\* samples pushed into the MatVectors
MaxSamples == 16

\* getUserMedia requests made through startCamera
MaxRequests == 3
\* capture() calls of one captureWithGuidance run
MaxGrabs == 4
\* blockConfig assignments by the caller in one session
MaxConfigs == 1
\* largest rows / columns handed to prepareObjectPoints on its own
MaxDim == 6

\* clock advance between two consecutive calls (ms)
Deltas == {0, 50, 100}
\* fps values createTrigger is constructed with
TriggerFps == {-10, 0, 5, 10, 20}
\* config.fps values Camera is constructed with (0 stands for "not given")
ConfigFps == {0, 10, 20}
\* angles of the poses handed to getGuidance on its own
EvalAngles == {-10, 0, 5}
\* angles of the poses the pose solver reports in a session
DrawAngles == {0, 15}
\* square sizes handed to prepareObjectPoints on its own
SquareSizes == {1, 2, 3}
\* the configs the caller assigns to blockConfig (0 stands for "not given")
BlockConfigs ==
    {[colNum |-> 6, rowNum |-> 6, squareSize |-> 2],
     [colNum |-> 0, rowNum |-> -3, squareSize |-> -1]}

----------------------------------------------------------------------------
(* Program constants *)

\* getGuidance: const threshold = 10
threshold == 10
\* Camera.draw: if (this.objpointsMat.size() >= 15)
MinSamples == 15
\* Camera constructor: config.fps || 10
DefaultFps == 10

\* the four strings getGuidance returns
TipVertical == "vertical"      \* "请上下移动相机或棋盘格"
TipHorizontal == "horizontal"  \* "请左右移动相机或棋盘格"
TipRotate == "rotate"          \* "请旋转棋盘格或相机"
TipOk == "ok"                  \* "当前角度合适，继续采集!"

----------------------------------------------------------------------------
(* Pose novelty evaluation *)

Abs(x) == IF x < 0 THEN -x ELSE x

Max(a, b) == IF a > b THEN a ELSE b

Point(p, y, r, d) == [pitch |-> p, yaw |-> y, roll |-> r, distance |-> d]

\* the for-loop of getGuidance: the three running maxima after history[1..n]
RECURSIVE maxDiffs(_, _, _)
maxDiffs(newAngle, history, n) ==
    IF n = 0
    THEN [pitch |-> 0, yaw |-> 0, roll |-> 0]
    ELSE LET m == maxDiffs(newAngle, history, n - 1)
             h == history[n]
         IN  [pitch |-> Max(m.pitch, Abs(newAngle.pitch - h.pitch)),
              yaw   |-> Max(m.yaw, Abs(newAngle.yaw - h.yaw)),
              roll  |-> Max(m.roll, Abs(newAngle.roll - h.roll))]

\* mutant: the maxima start from the pose's own angles (an implicit zero pose)
getGuidanceZeroPose(newAngle, history) ==
    LET m == maxDiffs(newAngle, <<Point(0, 0, 0, 0)>> \o history, Len(history) + 1)
    IN  IF m.pitch < threshold THEN TipVertical
        ELSE IF m.yaw < threshold THEN TipHorizontal
        ELSE IF m.roll < threshold THEN TipRotate
        ELSE TipOk

\* mutant: the yaw maximum is looked at before the pitch maximum
getGuidanceYawFirst(newAngle, history) ==
    LET m == maxDiffs(newAngle, history, Len(history))
    IN  IF m.yaw < threshold THEN TipHorizontal
        ELSE IF m.pitch < threshold THEN TipVertical
        ELSE IF m.roll < threshold THEN TipRotate
        ELSE TipOk

getGuidance(newAngle, history) ==
    LET m == maxDiffs(newAngle, history, Len(history))
    IN  IF m.pitch < threshold THEN TipVertical
        ELSE IF m.yaw < threshold THEN TipHorizontal
        ELSE IF m.roll < threshold THEN TipRotate
        ELSE TipOk

----------------------------------------------------------------------------
(* Frame throttler *)

\* mutant: strict comparison
triggerAllowsStrict(t, last, f) ==
    IF f > 0 THEN (t - last) * f > 1000
    ELSE IF f = 0 THEN FALSE
    ELSE (t - last) * f < 1000

\* createTrigger: now - lastTime >= interval, interval = 1000 / fps
\* (1000 / 0 is Infinity; a negative fps gives a negative interval)
triggerAllows(t, last, f) ==
    IF f > 0 THEN (t - last) * f >= 1000
    ELSE IF f = 0 THEN FALSE
    ELSE (t - last) * f <= 1000

\* mutant: the timestamp of the last allowed call is never stored
triggerLastTimeStale(t, last, f) == last

\* mutant: the timestamp of every call is stored, allowed or not
triggerLastTimeAlways(t, last, f) == t

\* createTrigger: lastTime after a call at t
triggerLastTime(t, last, f) == IF triggerAllows(t, last, f) THEN t ELSE last

\* mutant: a call exactly one interval after the last one is still held back
inlineThrottledInclusive(t, last, f) ==
    IF f > 0 THEN (t - last) * f <= 1000
    ELSE IF f = 0 THEN TRUE
    ELSE (t - last) * f >= 1000

\* Camera.draw (inline): if (now - this.lastDrawTime < 1000 / this.fps) return
inlineThrottled(t, last, f) ==
    IF f > 0 THEN (t - last) * f < 1000
    ELSE IF f = 0 THEN TRUE
    ELSE (t - last) * f > 1000

----------------------------------------------------------------------------
(* Object-point grid *)

\* the inner loop of prepareObjectPoints: row i from column j on
RECURSIVE gridRow(_, _, _, _)
gridRow(i, j, cols, sq) ==
    IF j < cols
    THEN <<<<j * sq, i * sq, 0>>>> \o gridRow(i, j + 1, cols, sq)
    ELSE <<>>

\* the outer loop of prepareObjectPoints: rows i .. rows-1
RECURSIVE gridRows(_, _, _, _)
gridRows(i, rows, cols, sq) ==
    IF i < rows
    THEN gridRow(i, 0, cols, sq) \o gridRows(i + 1, rows, cols, sq)
    ELSE <<>>

\* mutant: the two coordinates are swapped
prepareObjectPointsSwapped(rows, cols, sq) ==
    LET g == gridRows(0, rows, cols, sq)
    IN  [k \in 1..Len(g) |-> <<g[k][2], g[k][1], 0>>]

\* prepareObjectPoints() with rowNum = rows, colNum = cols, squareSize = sq
prepareObjectPoints(rows, cols, sq) == gridRows(0, rows, cols, sq)

----------------------------------------------------------------------------
(* State *)

Versions == {"models", "inline", "matvec"}

\* poses handed to getGuidance on its own
EvalPoses(dists) ==
    {Point(p, y, r, d) : p \in EvalAngles, y \in EvalAngles, r \in EvalAngles, d \in dists}

\* poses the pose solver (solvePnP + analyzePose) reports during a session
DrawPoses ==
    {Point(p, y, r, 1) : p \in DrawAngles, y \in DrawAngles, r \in DrawAngles}

\* sequences over S of length at most n
SeqUpTo(S, n) == UNION {[1..k -> S] : k \in 0..n}

\* what the latest operation did
Op(name, outcome, tip, emitted, accepted, acquired, released, calibrated) ==
    [name |-> name, outcome |-> outcome, tip |-> tip, emitted |-> emitted,
     accepted |-> accepted, acquired |-> acquired, released |-> released,
     calibrated |-> calibrated]

NoOp == Op("none", "none", "none", FALSE, FALSE, {}, {}, 0)

\* no stream requested, no capture loop started
NoMedia == stream = 0 /\ tracks = {} /\ requests = {} /\ issued = 0
NoLoop == pc = "idle" /\ numImages = 0 /\ videoRef = FALSE /\ grabs = 0 /\ awaited = FALSE

\* the two Apps: hooks/camera.ts re-schedules draw after every tick, App.tsx
\* schedules one tick
Apps == {"loop", "once"}

\* no blockConfig assignment yet
NoConfig == [colNum |-> 0, rowNum |-> 0, squareSize |-> 0]

\* init(): blockConfig || { squareSize: 1, colNum: 10, rowNum: 7 }
DefaultBlockConfig == [colNum |-> 10, rowNum |-> 7, squareSize |-> 1]

\* field initialisers and constructor of class Camera
\*   models: colNum = rowNum = 0, objp = [], no fps, onGuidance never assigned
\*   inline, matvec: colNum = 10, rowNum = 7, fps = config.fps || 10
CameraFields(v, cfgFps) ==
    /\ version = v
    /\ inited = FALSE
    /\ colNum = IF v = "models" THEN 0 ELSE 10
    /\ rowNum = IF v = "models" THEN 0 ELSE 7
    /\ objp = 0
    /\ objMat = 0
    /\ fps = IF v = "models" THEN 0 ELSE IF cfgFps = 0 THEN DefaultFps ELSE cfgFps
    /\ now = 0
    /\ lastTime = 0
    /\ lastDrawTime = 0
    /\ onGuidance = "undefined"
    /\ anglesHist = <<>>
    /\ objectPoints = <<>>
    /\ imagePoints = <<>>
    /\ captured = 0
    /\ objpointsMat = <<>>
    /\ imgpointsMat = <<>>
    /\ prevGray = "null"
    /\ prevCorners = "null"
    /\ evals = <<>>
    /\ calls = <<>>
    /\ op = NoOp
    /\ squareSize = IF v = "models" THEN 0 ELSE 1
    /\ grid = <<>>
    /\ assigned = NoConfig
    /\ configs = 0
    /\ reported = {}
    /\ pending = 0
    /\ NoMedia
    /\ NoLoop

Init == \E v \in Versions, c \in ConfigFps : CameraFields(v, c) /\ app \in Apps

----------------------------------------------------------------------------
(* Camera.init *)

\* mutant: a given value of 0 is stored like any other
configValueAny(given, current) == given

\* config.colNum || this.colNum: a missing or zero value keeps the current one
configValue(given, current) == IF given # 0 THEN given ELSE current

\* the blockConfig setter.  In the matvec revision objMat is rebuilt with
\* matFromArray(colNum * rowNum, 3, ...), which throws on a negative row count
\* after the three fields are already assigned.
blockConfigSet(cfg) ==
    LET c == configValue(cfg.colNum, colNum)
        r == configValue(cfg.rowNum, rowNum)
        q == configValue(cfg.squareSize, squareSize)
        g == prepareObjectPoints(r, c, q)
    IN  /\ colNum' = c
        /\ rowNum' = r
        /\ squareSize' = q
        /\ grid' = g
        /\ objp' = IF version = "matvec" THEN objp ELSE Len(g)
        /\ objMat' = IF version = "matvec" /\ c * r >= 0 THEN c * r ELSE objMat

\* the setter threw (matvec revision, negative row count)
blockConfigThrows(cfg) ==
    /\ version = "matvec"
    /\ configValue(cfg.colNum, colNum) * configValue(cfg.rowNum, rowNum) < 0

\* init(): getDevicesWithPermission, (matvec: blockConfig = default), startCamera;
\* when it has resolved the caller schedules the first draw.  opened is whether
\* getUserMedia gave a stream; startCamera reports the failure to onError.
CameraInit ==
    /\ version \in Versions
    /\ ~inited
    /\ inited' = TRUE
    /\ \E d \in Deltas : now' = now + d
    /\ IF version = "matvec"
       THEN blockConfigSet(DefaultBlockConfig)
       ELSE UNCHANGED <<colNum, rowNum, squareSize, grid, objp, objMat>>
    /\ \E opened \in BOOLEAN :
         reported' = IF opened THEN reported ELSE reported \cup {"open"}
    /\ pending' = pending + 1
    /\ op' = Op("init", "none", "none", FALSE, FALSE, {}, {}, 0)
    /\ UNCHANGED <<version, fps, lastTime, lastDrawTime, onGuidance,
                   anglesHist, objectPoints, imagePoints, captured,
                   objpointsMat, imgpointsMat, prevGray, prevCorners, evals, calls,
                   assigned, configs,
                   app, mediaVars, hookVars>>

\* an assignment camera.blockConfig = cfg by the caller
SetBlockConfig ==
    /\ version \in Versions
    /\ configs < MaxConfigs
    /\ configs' = configs + 1
    /\ \E cfg \in BlockConfigs :
         /\ blockConfigSet(cfg)
         /\ assigned' = cfg
         /\ op' = Op("blockConfig", IF blockConfigThrows(cfg) THEN "threw" ELSE "none",
                     "none", FALSE, FALSE,
                     IF version = "matvec" /\ ~blockConfigThrows(cfg)
                     THEN {"objMat"} ELSE {},
                     {}, 0)
    /\ UNCHANGED <<version, inited, fps, now, lastTime, lastDrawTime, onGuidance,
                   anglesHist, objectPoints, imagePoints, captured,
                   objpointsMat, imgpointsMat, prevGray, prevCorners, evals, calls,
                   reported, pending,
                   app, mediaVars, hookVars>>

\* video.videoWidth / videoHeight are non-zero only once a stream plays
FrameChoices == IF "open" \in reported THEN {FALSE} ELSE BOOLEAN

\* the detector reports corners only for a pattern it can look for
FoundChoices == IF colNum > 2 /\ rowNum > 2 THEN BOOLEAN ELSE {FALSE}

----------------------------------------------------------------------------
(* Camera.draw, src/src/models/camera.ts *)

\* buffers every processed frame allocates: src, gray, corners
FrameMats == {"src", "gray", "corners"}
\* buffers of the pose estimation (rotMat is analyzePose's)
PoseMats == {"objMat", "imgMat", "rvec", "tvec", "cameraMatrix", "distCoeffs", "rotMat"}
\* objMat.delete(); imgMat.delete(); rvec.delete(); tvec.delete(); rotMat.delete()
PoseMatsDeleted == {"objMat", "imgMat", "rvec", "tvec", "rotMat"}

\* this.onGuidance?.(tip): the callback runs only when the field is set
guidanceEmitted(cb) == cb # "undefined"

\* requestAnimationFrame(draw) after camera.draw() has returned: the looping
\* App schedules the successor unless draw() threw, App.tsx schedules no
\* successor
scheduled(threw) == IF app = "loop" /\ ~threw THEN pending ELSE pending - 1

\* mutant: the throttle is consulted before the video size is looked at
throttleConsultedAlways(hasFrame) == TRUE

\* if (videoHeight == 0 || videoWidth == 0) return; stands before the throttle
throttleConsulted(hasFrame) == hasFrame

\* mutant: the vector is recreated for every sample
pushBackFresh(vec, x) == <<x>>

\* MatVector.push_back and Array.push
pushBack(vec, x) == Append(vec, x)

\* one call of draw(): hasFrame is videoWidth/videoHeight # 0, found the result
\* of cv.findChessboardCorners, angles the pose analyzePose returns
DrawModels ==
    /\ version = "models"
    /\ inited
    /\ Len(evals) < MaxEvals
    /\ pending >= 1
    /\ pending' = scheduled(FALSE)
    /\ \E hasFrame \in FrameChoices, found \in FoundChoices, angles \in DrawPoses :
         IF ~hasFrame
         THEN /\ op' = Op("draw", "novideo", "none", FALSE, FALSE, {}, {}, 0)
              /\ UNCHANGED <<anglesHist, objectPoints, imagePoints, captured, evals>>
         ELSE IF ~found
         THEN /\ op' = Op("draw", "nocorners", "none", FALSE, FALSE,
                          FrameMats, FrameMats, 0)
              /\ UNCHANGED <<anglesHist, objectPoints, imagePoints, captured, evals>>
         ELSE LET tip == getGuidance(angles, anglesHist)
                  accept == tip = TipOk
              IN  /\ evals' = Append(evals, [pose |-> angles, history |-> anglesHist,
                                            tip |-> tip])
                  /\ objectPoints' =
                       IF accept THEN pushBack(objectPoints, objp) ELSE objectPoints
                  /\ imagePoints' =
                       IF accept THEN pushBack(imagePoints, colNum * rowNum)
                       ELSE imagePoints
                  /\ anglesHist' =
                       IF accept THEN pushBack(anglesHist, angles) ELSE anglesHist
                  /\ captured' = IF accept THEN captured + 1 ELSE captured
                  /\ op' = Op("draw", "found", tip, guidanceEmitted(onGuidance), accept,
                              FrameMats \cup PoseMats,
                              FrameMats \cup PoseMatsDeleted, 0)
    /\ UNCHANGED <<version, inited, colNum, rowNum, objp, objMat, fps, now,
                   lastTime, lastDrawTime, onGuidance, objpointsMat,
                   imgpointsMat, prevGray, prevCorners, calls,
                   squareSize, grid, assigned, configs, reported,
                   app, mediaVars, hookVars>>

----------------------------------------------------------------------------
(* Camera.draw with the inline throttle, src/unnamed/part_000:210 *)

\* this.lastDrawTime = now, reached only when the tick is not throttled
inlineLastDrawTime(t, last, f) == IF inlineThrottled(t, last, f) THEN last ELSE t

\* the pose estimation and the capture are commented out in this revision
DrawInline ==
    /\ version = "inline"
    /\ inited
    /\ pending >= 1
    /\ pending' = scheduled(FALSE)
    /\ \E hasFrame \in FrameChoices, found \in FoundChoices, d \in Deltas :
         /\ now + d <= MaxTime
         /\ now' = now + d
         /\ lastDrawTime' = IF throttleConsulted(hasFrame)
                            THEN inlineLastDrawTime(now', lastDrawTime, fps)
                            ELSE lastDrawTime
         /\ op' = IF ~hasFrame
                  THEN Op("draw", "novideo", "none", FALSE, FALSE, {}, {}, 0)
                  ELSE IF inlineThrottled(now', lastDrawTime, fps)
                  THEN Op("draw", "throttled", "none", FALSE, FALSE, {}, {}, 0)
                  ELSE Op("draw", IF found THEN "found" ELSE "nocorners", "none",
                          FALSE, FALSE, FrameMats, FrameMats, 0)
    /\ UNCHANGED <<version, inited, colNum, rowNum, objp, objMat, fps, lastTime,
                   onGuidance, anglesHist, objectPoints, imagePoints, captured,
                   objpointsMat, imgpointsMat, prevGray, prevCorners, evals, calls,
                   squareSize, grid, assigned, configs, reported,
                   app, mediaVars, hookVars>>

----------------------------------------------------------------------------
(* Camera.draw with createTrigger and MatVectors, src/unnamed/part_000:634 *)

\* buffers of calibrateCamera, none of them deleted
CalibMats == {"calibCameraMatrix", "calibDistCoeffs", "rvecs", "tvecs",
              "stdDeviationsIntrinsics", "stdDeviationsExtrinsics", "perViewErrors"}

\* mutant: the corners of a failed detection are used as well
matvecCornersAlways(found) == TRUE

\* if (out.found) corners = out.corners: corners is set only when found
matvecCorners(found) == found

\* the buffers held over from the previous tick, deleted at the start of this one
PrevDeleted ==
    (IF prevCorners # "null" THEN {"prevCorners"} ELSE {})
        \cup (IF prevGray # "null" THEN {"prevGray"} ELSE {})

\* mutant: the solver runs only when the count reaches the threshold
shouldCalibrateOnce(n) == n = MinSamples

\* if (this.objpointsMat.size() >= 15) this.calibrateCamera(...)
shouldCalibrate(n) == n >= MinSamples

\* mutant: gray and corners are deleted with src, as the earlier revisions do
tickEndDeletedAll == {"src", "gray", "corners"}

\* src.delete() at the end of draw()
tickEndDeleted == {"src"}

\* what a pointer kept in prevGray / prevCorners refers to after the tick
keptStatus(buffer) == IF buffer \in tickEndDeleted THEN "deleted" ELSE "live"

\* mutant: only the object points are pushed
recordSampleObjectOnly ==
    /\ objpointsMat' = pushBack(objpointsMat, objMat)
    /\ imgpointsMat' = imgpointsMat

\* objpointsMat.push_back(objMat.clone()); imgpointsMat.push_back(imgMat)
recordSample ==
    /\ objpointsMat' = pushBack(objpointsMat, objMat)
    /\ imgpointsMat' = pushBack(imgpointsMat, colNum * rowNum)

\* solverOk is whether cv.calibrateCameraExtended returns; when it throws, the
\* exception leaves draw() and the caller's loop before src.delete() and before
\* the next requestAnimationFrame(draw)
DrawMatVec ==
    /\ version = "matvec"
    /\ inited
    /\ pending >= 1
    /\ Len(objpointsMat) < MaxSamples
    /\ \E hasFrame \in FrameChoices, found \in FoundChoices, d \in Deltas,
          solverOk \in BOOLEAN :
         LET allowed == hasFrame /\ triggerAllows(now + d, lastTime, fps)
             n == Len(objpointsMat) + 1
             calib == allowed /\ matvecCorners(found) /\ shouldCalibrate(n)
             failed == calib /\ ~solverOk
         IN  /\ now + d <= MaxTime
             /\ now' = now + d
             /\ lastTime' = IF throttleConsulted(hasFrame)
                            THEN triggerLastTime(now', lastTime, fps)
                            ELSE lastTime
             /\ pending' = scheduled(failed)
             /\ IF ~hasFrame
                THEN /\ op' = Op("draw", "novideo", "none", FALSE, FALSE, {}, {}, 0)
                     /\ UNCHANGED <<objpointsMat, imgpointsMat, prevGray, prevCorners>>
                ELSE IF ~allowed
                THEN /\ op' = Op("draw", "throttled", "none", FALSE, FALSE, {}, {}, 0)
                     /\ UNCHANGED <<objpointsMat, imgpointsMat, prevGray, prevCorners>>
                ELSE IF ~matvecCorners(found)
                THEN /\ prevCorners' = "null"
                     /\ prevGray' = "null"
                     /\ op' = Op("draw", IF found THEN "found" ELSE "nocorners",
                                 "none", FALSE, FALSE,
                                 FrameMats, tickEndDeleted \cup PrevDeleted, 0)
                     /\ UNCHANGED <<objpointsMat, imgpointsMat>>
                ELSE /\ prevCorners' = IF failed THEN "live" ELSE keptStatus("corners")
                     /\ prevGray' = IF failed THEN "live" ELSE keptStatus("gray")
                     /\ recordSample
                     /\ op' = Op("draw",
                                 IF failed THEN "solverfailed"
                                 ELSE IF found THEN "found" ELSE "nocorners",
                                 "none", FALSE, FALSE,
                                 FrameMats \cup {"objMatClone", "imgMat"}
                                    \cup (IF calib THEN CalibMats ELSE {}),
                                 (IF failed THEN {} ELSE tickEndDeleted)
                                    \cup PrevDeleted,
                                 IF calib THEN n ELSE 0)
    /\ UNCHANGED <<version, inited, colNum, rowNum, objp, objMat, fps,
                   lastDrawTime, onGuidance, anglesHist, objectPoints,
                   imagePoints, captured, evals, calls,
                   squareSize, grid, assigned, configs, reported,
                   app, mediaVars, hookVars>>

Next == CameraInit \/ SetBlockConfig \/ DrawModels \/ DrawInline \/ DrawMatVec

Spec == Init /\ [][Next]_vars

----------------------------------------------------------------------------
(* createTrigger on its own: a fresh throttler and a sequence of calls *)

InitTrigger ==
    /\ version = "trigger"
    /\ fps \in TriggerFps
    /\ inited = FALSE /\ colNum = 0 /\ rowNum = 0 /\ objp = 0 /\ objMat = 0
    /\ now = 0 /\ lastTime = 0 /\ lastDrawTime = 0
    /\ onGuidance = "undefined"
    /\ anglesHist = <<>> /\ objectPoints = <<>> /\ imagePoints = <<>>
    /\ captured = 0 /\ objpointsMat = <<>> /\ imgpointsMat = <<>>
    /\ prevGray = "null" /\ prevCorners = "null"
    /\ evals = <<>> /\ calls = <<>> /\ op = NoOp
    /\ squareSize = 0 /\ grid = <<>> /\ assigned = NoConfig /\ configs = 0
    /\ reported = {} /\ pending = 0 /\ app = "none" /\ NoMedia /\ NoLoop

\* one call of the function createTrigger returns, at performance.now() = now'
TriggerCall ==
    /\ version = "trigger"
    /\ Len(calls) < MaxCalls
    /\ \E d \in Deltas : now' = now + d
    /\ lastTime' = triggerLastTime(now', lastTime, fps)
    /\ calls' = Append(calls, [t |-> now', r |-> triggerAllows(now', lastTime, fps)])
    /\ op' = Op("trigger",
                IF triggerAllows(now', lastTime, fps) THEN "allowed" ELSE "throttled",
                "none", FALSE, FALSE, {}, {}, 0)
    /\ UNCHANGED <<version, inited, colNum, rowNum, objp, objMat, fps,
                   lastDrawTime, onGuidance, anglesHist, objectPoints,
                   imagePoints, captured, objpointsMat, imgpointsMat, prevGray,
                   prevCorners, evals,
                   squareSize, grid, assigned, configs, reported, pending,
                   app, mediaVars, hookVars>>

SpecTrigger == InitTrigger /\ [][TriggerCall]_vars

----------------------------------------------------------------------------
(* getGuidance on its own: any history, any pose *)

InitGuidance ==
    /\ version = "guidance"
    /\ anglesHist \in SeqUpTo(EvalPoses({1}), MaxHist)
    /\ inited = FALSE /\ colNum = 0 /\ rowNum = 0 /\ objp = 0 /\ objMat = 0
    /\ fps = 0 /\ now = 0 /\ lastTime = 0 /\ lastDrawTime = 0
    /\ onGuidance = "undefined"
    /\ objectPoints = <<>> /\ imagePoints = <<>>
    /\ captured = 0 /\ objpointsMat = <<>> /\ imgpointsMat = <<>>
    /\ prevGray = "null" /\ prevCorners = "null"
    /\ evals = <<>> /\ calls = <<>> /\ op = NoOp
    /\ squareSize = 0 /\ grid = <<>> /\ assigned = NoConfig /\ configs = 0
    /\ reported = {} /\ pending = 0 /\ app = "none" /\ NoMedia /\ NoLoop

\* one call getGuidance(newAngle, anglesHist)
EvaluatePose ==
    /\ version = "guidance"
    /\ evals = <<>>
    /\ \E newAngle \in EvalPoses({1, 2}) :
         LET tip == getGuidance(newAngle, anglesHist)
         IN  /\ evals' = <<[pose |-> newAngle, history |-> anglesHist, tip |-> tip]>>
             /\ op' = Op("getGuidance", "none", tip, FALSE, tip = TipOk, {}, {}, 0)
    /\ UNCHANGED <<version, inited, colNum, rowNum, objp, objMat, fps, now,
                   lastTime, lastDrawTime, onGuidance, anglesHist, objectPoints,
                   imagePoints, captured, objpointsMat, imgpointsMat, prevGray,
                   prevCorners, calls,
                   squareSize, grid, assigned, configs, reported, pending,
                   app, mediaVars, hookVars>>

SpecGuidance == InitGuidance /\ [][EvaluatePose]_vars

----------------------------------------------------------------------------
(* prepareObjectPoints on its own: any rows, columns and square size *)

InitGrid ==
    /\ version = "grid"
    /\ rowNum \in 0..MaxDim
    /\ colNum \in 0..MaxDim
    /\ squareSize \in SquareSizes
    /\ inited = FALSE /\ objp = 0 /\ objMat = 0
    /\ fps = 0 /\ now = 0 /\ lastTime = 0 /\ lastDrawTime = 0
    /\ onGuidance = "undefined"
    /\ anglesHist = <<>> /\ objectPoints = <<>> /\ imagePoints = <<>>
    /\ captured = 0 /\ objpointsMat = <<>> /\ imgpointsMat = <<>>
    /\ prevGray = "null" /\ prevCorners = "null"
    /\ evals = <<>> /\ calls = <<>> /\ op = NoOp
    /\ grid = <<>> /\ assigned = NoConfig /\ configs = 0
    /\ reported = {} /\ pending = 0 /\ app = "none" /\ NoMedia /\ NoLoop

\* one call this.objp = this.prepareObjectPoints()
PrepareGrid ==
    /\ version = "grid"
    /\ op.name = "none"
    /\ grid' = prepareObjectPoints(rowNum, colNum, squareSize)
    /\ objp' = Len(grid')
    /\ op' = Op("prepareObjectPoints", "none", "none", FALSE, FALSE, {}, {}, 0)
    /\ UNCHANGED <<version, inited, colNum, rowNum, objMat, fps, now, lastTime,
                   lastDrawTime, onGuidance, anglesHist, objectPoints,
                   imagePoints, captured, objpointsMat, imgpointsMat, prevGray,
                   prevCorners, evals, calls, squareSize, assigned, configs,
                   reported, pending,
                   app, mediaVars, hookVars>>

SpecGrid == InitGrid /\ [][PrepareGrid]_vars

----------------------------------------------------------------------------
(* The two throttles side by side: the same fps, the same timestamps *)

InitThrottle ==
    /\ version = "throttle"
    /\ fps \in TriggerFps
    /\ inited = FALSE /\ colNum = 0 /\ rowNum = 0 /\ objp = 0 /\ objMat = 0
    /\ now = 0 /\ lastTime = 0 /\ lastDrawTime = 0
    /\ onGuidance = "undefined"
    /\ anglesHist = <<>> /\ objectPoints = <<>> /\ imagePoints = <<>>
    /\ captured = 0 /\ objpointsMat = <<>> /\ imgpointsMat = <<>>
    /\ prevGray = "null" /\ prevCorners = "null"
    /\ evals = <<>> /\ calls = <<>> /\ op = NoOp
    /\ squareSize = 0 /\ grid = <<>> /\ assigned = NoConfig /\ configs = 0
    /\ reported = {} /\ pending = 0 /\ app = "none" /\ NoMedia /\ NoLoop

\* one timestamp handed to the function createTrigger returned and to the
\* inline test of draw(); inline is whether draw() went on past the test
ThrottlePair ==
    /\ version = "throttle"
    /\ Len(calls) < MaxCalls
    /\ \E d \in Deltas : now' = now + d
    /\ lastTime' = triggerLastTime(now', lastTime, fps)
    /\ lastDrawTime' = inlineLastDrawTime(now', lastDrawTime, fps)
    /\ calls' = Append(calls, [t |-> now',
                               r |-> triggerAllows(now', lastTime, fps),
                               inline |-> ~inlineThrottled(now', lastDrawTime, fps)])
    /\ op' = Op("throttle",
                IF triggerAllows(now', lastTime, fps) THEN "allowed" ELSE "throttled",
                "none", FALSE, FALSE, {}, {}, 0)
    /\ UNCHANGED <<version, inited, colNum, rowNum, objp, objMat, fps,
                   onGuidance, anglesHist, objectPoints,
                   imagePoints, captured, objpointsMat, imgpointsMat, prevGray,
                   prevCorners, evals,
                   squareSize, grid, assigned, configs, reported, pending,
                   app, mediaVars, hookVars>>

SpecThrottle == InitThrottle /\ [][ThrottlePair]_vars

----------------------------------------------------------------------------
(* The media stream: startCamera calls and their getUserMedia requests *)

\* the hook useCamera (streamRef) and class Camera (this.stream)
StreamVersions == {"useCamera", "Camera"}

InitStream ==
    /\ version \in StreamVersions
    /\ inited = FALSE /\ colNum = 0 /\ rowNum = 0 /\ objp = 0 /\ objMat = 0
    /\ fps = 0 /\ now = 0 /\ lastTime = 0 /\ lastDrawTime = 0
    /\ onGuidance = "undefined"
    /\ anglesHist = <<>> /\ objectPoints = <<>> /\ imagePoints = <<>>
    /\ captured = 0 /\ objpointsMat = <<>> /\ imgpointsMat = <<>>
    /\ prevGray = "null" /\ prevCorners = "null"
    /\ evals = <<>> /\ calls = <<>> /\ op = NoOp
    /\ squareSize = 0 /\ grid = <<>> /\ assigned = NoConfig /\ configs = 0
    /\ reported = {} /\ pending = 0 /\ app = "none" /\ NoMedia /\ NoLoop

\* startCamera() up to its await: the tracks of the referenced stream are
\* stopped (Camera.stopStream; in useCamera the effect's cleanup and the same
\* lines at the start of startCamera) and a getUserMedia request is made
StartCamera ==
    /\ version \in StreamVersions
    /\ issued < MaxRequests
    /\ tracks' = tracks \ {stream}
    /\ issued' = issued + 1
    /\ requests' = requests \cup {issued + 1}
    /\ op' = Op("startCamera", "none", "none", FALSE, FALSE, {}, {}, 0)
    /\ UNCHANGED <<version, inited, colNum, rowNum, objp, objMat, fps, now,
                   lastTime, lastDrawTime, onGuidance, anglesHist, objectPoints,
                   imagePoints, captured, objpointsMat, imgpointsMat, prevGray,
                   prevCorners, evals, calls, squareSize, grid, assigned, configs,
                   reported, pending, app, stream, hookVars>>

\* a getUserMedia request settles and startCamera resumes after its await:
\* granted, the new stream is stored; rejected, the error is reported
StreamSettled ==
    /\ version \in StreamVersions
    /\ \E id \in requests, granted \in BOOLEAN :
         /\ requests' = requests \ {id}
         /\ stream' = IF granted THEN id ELSE stream
         /\ tracks' = IF granted THEN tracks \cup {id} ELSE tracks
         /\ reported' = IF granted THEN reported ELSE reported \cup {"open"}
         /\ op' = Op("settled", IF granted THEN "granted" ELSE "rejected",
                     "none", FALSE, FALSE, {}, {}, 0)
    /\ UNCHANGED <<version, inited, colNum, rowNum, objp, objMat, fps, now,
                   lastTime, lastDrawTime, onGuidance, anglesHist, objectPoints,
                   imagePoints, captured, objpointsMat, imgpointsMat, prevGray,
                   prevCorners, evals, calls, squareSize, grid, assigned, configs,
                   pending, app, issued, hookVars>>

\* useCamera.stop() stops the tracks and clears streamRef; Camera.stopStream()
\* stops the tracks and keeps this.stream
StopStream ==
    /\ version \in StreamVersions
    /\ tracks' = tracks \ {stream}
    /\ stream' = IF version = "useCamera" THEN 0 ELSE stream
    /\ op' = Op("stop", "none", "none", FALSE, FALSE, {}, {}, 0)
    /\ UNCHANGED <<version, inited, colNum, rowNum, objp, objMat, fps, now,
                   lastTime, lastDrawTime, onGuidance, anglesHist, objectPoints,
                   imagePoints, captured, objpointsMat, imgpointsMat, prevGray,
                   prevCorners, evals, calls, squareSize, grid, assigned, configs,
                   reported, pending, app, requests, issued, hookVars>>

NextStream == StartCamera \/ StreamSettled \/ StopStream

SpecStream == InitStream /\ [][NextStream]_vars

----------------------------------------------------------------------------
(* captureWithGuidance, src/unnamed/part_001 *)

\* the numImages arguments captureWithGuidance is called with
NumImages == {0, 1, 2}

\* the completion message "采集完成，开始标定！"
TipComplete == "complete"

\* useState defaults of the hook: colNum = 6, rowNum = 6, squareSize = 1
InitCapture ==
    /\ version = "hook"
    /\ colNum = 6 /\ rowNum = 6 /\ squareSize = 1
    /\ videoRef \in BOOLEAN
    /\ pc = "idle" /\ numImages = 0 /\ grabs = 0 /\ awaited = FALSE
    /\ inited = FALSE /\ objp = 0 /\ objMat = 0
    /\ fps = 0 /\ now = 0 /\ lastTime = 0 /\ lastDrawTime = 0
    /\ onGuidance = "callback"
    /\ anglesHist = <<>> /\ objectPoints = <<>> /\ imagePoints = <<>>
    /\ captured = 0 /\ objpointsMat = <<>> /\ imgpointsMat = <<>>
    /\ prevGray = "null" /\ prevCorners = "null"
    /\ evals = <<>> /\ calls = <<>> /\ op = NoOp
    /\ grid = <<>> /\ assigned = NoConfig /\ configs = 0
    /\ reported = {} /\ pending = 0 /\ app = "none" /\ NoMedia

\* captureWithGuidance(n) up to the loop: cv is ready, objp is prepared
CaptureStart ==
    /\ version = "hook"
    /\ pc = "idle"
    /\ pc' = "grab"
    /\ \E n \in NumImages : numImages' = n
    /\ grid' = prepareObjectPoints(rowNum, colNum, squareSize)
    /\ objp' = Len(grid')
    /\ op' = Op("captureWithGuidance", "none", "none", FALSE, FALSE, {}, {}, 0)
    /\ UNCHANGED <<version, inited, colNum, rowNum, objMat, fps, now, lastTime,
                   lastDrawTime, onGuidance, anglesHist, objectPoints,
                   imagePoints, captured, objpointsMat, imgpointsMat, prevGray,
                   prevCorners, evals, calls, squareSize, assigned, configs,
                   reported, pending, app, mediaVars, videoRef, grabs, awaited>>

\* one pass through the loop body from capture() on: without a frame the loop
\* continues at once, with a frame it runs up to the await of the timer
CaptureGrab ==
    /\ version = "hook"
    /\ pc = "grab"
    /\ captured < numImages
    /\ grabs < MaxGrabs
    /\ grabs' = grabs + 1
    /\ awaited' = FALSE
    /\ IF ~videoRef
       THEN /\ pc' = "grab"
            /\ op' = Op("grab", "noframe", "none", FALSE, FALSE, {}, {}, 0)
            /\ UNCHANGED <<anglesHist, objectPoints, imagePoints, captured, evals>>
       ELSE /\ pc' = "sleep"
            /\ \E found \in FoundChoices, angles \in DrawPoses :
                 IF ~found
                 THEN /\ op' = Op("grab", "nocorners", "none", FALSE, FALSE,
                                  FrameMats, FrameMats, 0)
                      /\ UNCHANGED <<anglesHist, objectPoints, imagePoints,
                                     captured, evals>>
                 ELSE LET tip == getGuidance(angles, anglesHist)
                          accept == tip = TipOk
                      IN  /\ evals' = Append(evals, [pose |-> angles,
                                                     history |-> anglesHist,
                                                     tip |-> tip])
                          /\ objectPoints' =
                               IF accept THEN pushBack(objectPoints, objp)
                               ELSE objectPoints
                          /\ imagePoints' =
                               IF accept THEN pushBack(imagePoints, colNum * rowNum)
                               ELSE imagePoints
                          /\ anglesHist' =
                               IF accept THEN pushBack(anglesHist, angles)
                               ELSE anglesHist
                          /\ captured' = IF accept THEN captured + 1 ELSE captured
                          /\ op' = Op("grab", "found", tip, TRUE, accept,
                                      FrameMats \cup PoseMats,
                                      FrameMats \cup PoseMatsDeleted, 0)
    /\ UNCHANGED <<version, inited, colNum, rowNum, objp, objMat, fps, now,
                   lastTime, lastDrawTime, onGuidance, objpointsMat,
                   imgpointsMat, prevGray, prevCorners, calls, squareSize, grid,
                   assigned, configs, reported, pending, app, mediaVars,
                   numImages, videoRef>>

\* the 500 ms timer fires and the loop resumes at its head
CaptureWake ==
    /\ version = "hook"
    /\ pc = "sleep"
    /\ pc' = "grab"
    /\ awaited' = TRUE
    /\ op' = Op("timer", "none", "none", FALSE, FALSE, {}, {}, 0)
    /\ UNCHANGED <<version, inited, colNum, rowNum, objp, objMat, fps, now,
                   lastTime, lastDrawTime, onGuidance, anglesHist, objectPoints,
                   imagePoints, captured, objpointsMat, imgpointsMat, prevGray,
                   prevCorners, evals, calls, squareSize, grid, assigned, configs,
                   reported, pending, app, mediaVars, numImages, videoRef, grabs>>

\* the loop test fails: setGuidance(completion message)
CaptureComplete ==
    /\ version = "hook"
    /\ pc = "grab"
    /\ captured >= numImages
    /\ pc' = "done"
    /\ op' = Op("complete", "none", TipComplete, TRUE, FALSE, {}, {}, 0)
    /\ UNCHANGED <<version, inited, colNum, rowNum, objp, objMat, fps, now,
                   lastTime, lastDrawTime, onGuidance, anglesHist, objectPoints,
                   imagePoints, captured, objpointsMat, imgpointsMat, prevGray,
                   prevCorners, evals, calls, squareSize, grid, assigned, configs,
                   reported, pending, app, mediaVars, numImages, videoRef, grabs,
                   awaited>>

\* React mounts or unmounts the video element; it can do so only while the
\* loop is not running, that is before the call, during the timer or after it
VideoRefChange ==
    /\ version = "hook"
    /\ pc \in {"idle", "sleep", "done"}
    /\ videoRef' = ~videoRef
    /\ UNCHANGED <<version, inited, colNum, rowNum, objp, objMat, fps, now,
                   lastTime, lastDrawTime, onGuidance, anglesHist, objectPoints,
                   imagePoints, captured, objpointsMat, imgpointsMat, prevGray,
                   prevCorners, evals, calls, op, squareSize, grid, assigned,
                   configs, reported, pending, app, mediaVars, pc, numImages,
                   grabs, awaited>>

NextCapture ==
    CaptureStart \/ CaptureGrab \/ CaptureWake \/ CaptureComplete \/ VideoRefChange

SpecCapture == InitCapture /\ [][NextCapture]_vars

\* the two novelty-gated controllers: Camera of models/camera.ts and the hook
InitNovelty == (Init /\ version = "models") \/ InitCapture

NextNovelty == CameraInit \/ SetBlockConfig \/ DrawModels \/ NextCapture

SpecNovelty == InitNovelty /\ [][NextNovelty]_vars

----------------------------------------------------------------------------
(* Observations used by the properties *)

\* the poses evaluated so far, the tips returned and the accept decisions
EvalPoseSeq == [i \in 1..Len(evals) |-> evals[i].pose]

EvalTipSeq == [i \in 1..Len(evals) |-> evals[i].tip]

EvalAcceptSeq == [i \in 1..Len(evals) |-> evals[i].tip = TipOk]

\* number of novelty evaluations that returned accept
AcceptCount == Cardinality({i \in 1..Len(evals) : evals[i].tip = TipOk})

\* number of accumulated calibration samples
SampleCount == IF version = "matvec" THEN Len(objpointsMat) ELSE Len(objectPoints)

\* timestamps and results of the throttler calls so far
CallTimes == [i \in 1..Len(calls) |-> calls[i].t]

CallResults == [i \in 1..Len(calls) |-> calls[i].r]

\* every field of the capture session: history, samples, buffers, configuration
SessionState ==
    <<version, inited, colNum, rowNum, objp, objMat, fps, onGuidance, anglesHist,
      objectPoints, imagePoints, captured, objpointsMat, imgpointsMat, prevGray,
      prevCorners, evals, squareSize, grid, assigned, configs, reported>>

----------------------------------------------------------------------------
(* Properties *)

ScenarioPoses ==
    <<Point(0, 0, 0, 1), Point(15, 0, 0, 1), Point(15, 15, 0, 1), Point(15, 15, 15, 1)>>

\* C1: from an empty session, the poses (0,0,0,1), (15,0,0,1), (15,15,0,1),
\* (15,15,15,1), each with corners found, are decided [false, false, false,
\* true] with guidance [vertical, horizontal, rotate, ok], and exactly one
\* sample is held afterwards.
C1_ScenarioAcceptsFourthPose ==
    (version = "models" /\ EvalPoseSeq = ScenarioPoses)
        => /\ EvalAcceptSeq = <<FALSE, FALSE, FALSE, TRUE>>
           /\ EvalTipSeq = <<TipVertical, TipHorizontal, TipRotate, TipOk>>
           /\ Len(objectPoints) = 1
           /\ Len(imagePoints) = 1

\* C2: whenever an evaluation accepts, the pose differs from every pose of the
\* history it was evaluated against by at least 10 degrees on each of the
\* three axes.
C2_AcceptedPoseDistinctFromAll ==
    \A i \in 1..Len(evals) :
        evals[i].tip = TipOk =>
            \A k \in 1..Len(evals[i].history) :
                LET P == evals[i].pose
                    h == evals[i].history[k]
                IN  /\ Abs(P.pitch - h.pitch) >= 10
                    /\ Abs(P.yaw - h.yaw) >= 10
                    /\ Abs(P.roll - h.roll) >= 10

\* C3: an evaluation against an empty history rejects with the pitch
\* ("move vertically") guidance, whatever the pose is.
C3_EmptyHistoryGivesVertical ==
    \A i \in 1..Len(evals) :
        evals[i].history = <<>> => evals[i].tip = TipVertical

\* a pose with non-zero pitch, yaw and roll and distance 2 was evaluated
\* against the empty history
C3_Witness ==
    /\ version = "guidance"
    /\ Len(evals) = 1
    /\ evals[1].history = <<>>
    /\ evals[1].pose = Point(-10, 5, -10, 2)

\* C4: the number of accumulated samples equals the number of evaluations
\* that accepted since the session started, and it never decreases.
C4_SamplesEqualAccepts ==
    [](SampleCount = AcceptCount) /\ [][SampleCount' >= SampleCount]_vars

\* C5: with fps > 0, any two throttler calls that returned true are at least
\* 1000/fps ms apart.
C5_AllowedCallsSpaced ==
    fps > 0 =>
        \A i, j \in 1..Len(calls) :
            (i < j /\ calls[i].r /\ calls[j].r)
                => (calls[j].t - calls[i].t) * fps >= 1000

\* two allowed calls with a refused call between them
C5_Witness ==
    /\ version = "trigger"
    /\ fps > 0
    /\ \E i, j, k \in 1..Len(calls) :
         i < k /\ k < j /\ calls[i].r /\ ~calls[k].r /\ calls[j].r

\* C6: a fresh throttler with fps = 10 called at 0, 50, 100 and 150 ms
\* returns [true, false, false, true].
C6_FirstCallAtZeroAllowed ==
    (version = "trigger" /\ fps = 10 /\ CallTimes = <<0, 50, 100, 150>>)
        => CallResults = <<TRUE, FALSE, FALSE, TRUE>>

\* C7: a throttler call returns true exactly when now - lastTime >= 1000/fps
\* and then sets lastTime to now; when it returns false, lastTime and all
\* other state are unchanged.
C7_TriggerCallEffect ==
    [][calls' # calls =>
          LET c == calls'[Len(calls')]
              elapsed == fps # 0 /\ (fps > 0 => (c.t - lastTime) * fps >= 1000)
          IN  /\ c.t = now'
              /\ c.r = elapsed
              /\ c.r => lastTime' = c.t
              /\ ~c.r => UNCHANGED <<lastTime, lastDrawTime, SessionState>>]_vars

\* a call exactly 1000/fps after the last allowed one was allowed, and another
\* call was refused
C7_Witness ==
    /\ version = "trigger"
    /\ fps > 0
    /\ \E i, j \in 1..Len(calls) :
         /\ i < j
         /\ calls[i].r /\ calls[j].r
         /\ (calls[j].t - calls[i].t) * fps = 1000
    /\ \E k \in 1..Len(calls) : ~calls[k].r

\* C8: a tick that passes the throttle and finds corners delivers the guidance
\* message to the caller's guidance callback.
C8_GuidanceDelivered ==
    (op.name = "draw" /\ op.outcome = "found") => op.emitted

\* C9: a tick on which no corners are found emits no guidance, leaves the pose
\* history and the samples unchanged and does not invoke calibration.
C9_NoCornersNoEffect ==
    [][(op'.name = "draw" /\ op'.outcome = "nocorners") =>
          /\ ~op'.emitted
          /\ op'.tip = "none"
          /\ op'.calibrated = 0
          /\ UNCHANGED <<anglesHist, objectPoints, imagePoints, captured,
                         objpointsMat, imgpointsMat, evals>>]_vars

\* a tick without corners after samples were accumulated
C9_Witness ==
    /\ version = "matvec"
    /\ op.name = "draw" /\ op.outcome = "nocorners"
    /\ Len(objpointsMat) >= 1

\* C10: a tick on which the throttler returns false acquires no frame, runs no
\* detection and leaves pose history, samples, guidance and throttle state
\* unchanged.
C10_ThrottledTickNoOp ==
    [][(op'.name = "draw" /\ op'.outcome = "throttled") =>
          /\ op'.acquired = {}
          /\ op'.released = {}
          /\ ~op'.emitted
          /\ op'.calibrated = 0
          /\ UNCHANGED <<lastTime, lastDrawTime, SessionState>>]_vars

\* a throttled tick after an allowed one, in a revision with a throttle
C10_Witness ==
    /\ version \in {"inline", "matvec"}
    /\ op.name = "draw" /\ op.outcome = "throttled"
    /\ lastTime + lastDrawTime > 0
    /\ now > lastTime + lastDrawTime

\* C11: after a sample is accepted the solver runs exactly when at least 15
\* samples are held, on all of them, on every such tick; no other step runs it.
C11_SolverFromFifteen ==
    [][IF version = "matvec" /\ Len(objpointsMat') = Len(objpointsMat) + 1
       THEN op'.calibrated =
              (IF Len(objpointsMat') >= 15 THEN Len(objpointsMat') ELSE 0)
       ELSE op'.calibrated = 0]_vars

\* the solver ran on the sixteenth sample, after it ran on the fifteenth
C11_Witness ==
    /\ version = "matvec"
    /\ op.name = "draw" /\ op.calibrated = 16
    /\ Len(objpointsMat) = 16

\* C12: a tick whose sample has a point count different from the one the
\* session accumulates reports a dimension mismatch and leaves the samples
\* unchanged.
C12_MismatchedSampleRejected ==
    [][(/\ version = "matvec"
        /\ op'.name = "draw"
        /\ op'.outcome \in {"found", "solverfailed"}
        /\ Len(objpointsMat) >= 1
        /\ \/ objMat # objpointsMat[1]
           \/ colNum * rowNum # imgpointsMat[1])
          => /\ "dimension" \in reported'
             /\ UNCHANGED <<objpointsMat, imgpointsMat>>]_vars

\* C13: every accumulated sample has rows * columns object points and as many
\* image points, rows and columns being those of the session's pattern.
C13_SamplesMatchPattern ==
    /\ \A k \in 1..Len(objpointsMat) :
         objpointsMat[k] = colNum * rowNum /\ imgpointsMat[k] = colNum * rowNum
    /\ \A k \in 1..Len(objectPoints) :
         objectPoints[k] = colNum * rowNum /\ imagePoints[k] = colNum * rowNum

\* C14: the grid has rows * columns points and the point at index
\* i * columns + j is (j * squareSize, i * squareSize, 0); for 6 x 6 x 1 it runs
\* from (0,0,0) over (1,0,0) to (5,5,0).
C14_GridRowMajor ==
    (version = "grid" /\ op.name = "prepareObjectPoints") =>
        /\ Len(grid) = rowNum * colNum
        /\ \A i \in 0..(rowNum - 1), j \in 0..(colNum - 1) :
             grid[i * colNum + j + 1] = <<j * squareSize, i * squareSize, 0>>
        /\ (rowNum = 6 /\ colNum = 6 /\ squareSize = 1) =>
             /\ Len(grid) = 36
             /\ grid[1] = <<0, 0, 0>> /\ grid[2] = <<1, 0, 0>>
             /\ grid[7] = <<0, 1, 0>> /\ grid[36] = <<5, 5, 0>>

\* the 6 x 6 grid of unit squares has been generated
C14_Witness ==
    /\ version = "grid" /\ op.name = "prepareObjectPoints"
    /\ rowNum = 6 /\ colNum = 6 /\ squareSize = 1
    /\ Len(grid) = 36

\* C15: a throttler built with a non-positive fps is reported as a configuration
\* error and answers no call.
C15_NonPositiveFpsReported ==
    (version = "trigger" /\ fps <= 0)
        => /\ "configuration" \in reported
           /\ calls = <<>>

\* C16: every buffer a tick acquires is released when the tick returns.
C16_TickReleasesItsBuffers ==
    op.name = "draw" => op.acquired \subseteq op.released

\* b is a, or a with one element appended
ExtendsByAtMostOne(a, b) ==
    \/ b = a
    \/ Len(b) = Len(a) + 1 /\ SubSeq(b, 1, Len(a)) = a

\* C17: every step leaves the pose history and each sample sequence as it was
\* or appends one element at its end.
C17_HistoryAndSamplesAppendOnly ==
    [][/\ ExtendsByAtMostOne(anglesHist, anglesHist')
       /\ ExtendsByAtMostOne(objectPoints, objectPoints')
       /\ ExtendsByAtMostOne(imagePoints, imagePoints')
       /\ ExtendsByAtMostOne(objpointsMat, objpointsMat')
       /\ ExtendsByAtMostOne(imgpointsMat, imgpointsMat')]_vars

\* a tick appended to a sequence that already held two samples
C17_Witness ==
    /\ version = "matvec"
    /\ op.name = "draw" /\ op.outcome = "found"
    /\ Len(objpointsMat) >= 3 /\ Len(imgpointsMat) >= 3

\* the largest element of a non-empty set of numbers
Largest(S) == CHOOSE m \in S : \A x \in S : x <= m

\* the largest absolute difference on each axis between a pose and a history
PitchSpread(e) ==
    Largest({0} \cup {Abs(e.pose.pitch - e.history[k].pitch) : k \in 1..Len(e.history)})
YawSpread(e) ==
    Largest({0} \cup {Abs(e.pose.yaw - e.history[k].yaw) : k \in 1..Len(e.history)})
RollSpread(e) ==
    Largest({0} \cup {Abs(e.pose.roll - e.history[k].roll) : k \in 1..Len(e.history)})

\* C18: the evaluation answers with the guidance of the first of pitch, yaw,
\* roll whose largest difference to the history is below 10, and accepts
\* exactly when all three are at least 10.
C18_AxisOrderPitchYawRoll ==
    \A k \in 1..Len(evals) :
        LET e == evals[k]
        IN  /\ (e.tip = TipVertical) <=> PitchSpread(e) < 10
            /\ (e.tip = TipHorizontal) <=> (PitchSpread(e) >= 10 /\ YawSpread(e) < 10)
            /\ (e.tip = TipRotate) <=>
                 (PitchSpread(e) >= 10 /\ YawSpread(e) >= 10 /\ RollSpread(e) < 10)
            /\ (e.tip = TipOk) <=>
                 (PitchSpread(e) >= 10 /\ YawSpread(e) >= 10 /\ RollSpread(e) >= 10)

\* a pose accepted with every axis exactly 10 away from the history
C18_Witness ==
    /\ version = "guidance"
    /\ \E k \in 1..Len(evals) :
         /\ evals[k].tip = TipOk
         /\ PitchSpread(evals[k]) = 10
         /\ YawSpread(evals[k]) = 10
         /\ RollSpread(evals[k]) = 10

\* C19: a tick on which the solver fails reports the failure to the caller and
\* leaves the next tick scheduled.
C19_SolverFailureSurfaced ==
    (op.name = "draw" /\ op.outcome = "solverfailed")
        => /\ "calibration" \in reported
           /\ pending >= 1

\* columns or rows below 2, or a square size that is not positive
InvalidPattern(cfg) == cfg.colNum < 2 \/ cfg.rowNum < 2 \/ cfg.squareSize <= 0

\* C20: assigning an invalid pattern reports a configuration error and changes
\* neither the pattern fields nor the object-point grid.
C20_InvalidPatternRejected ==
    [][(op'.name = "blockConfig" /\ InvalidPattern(assigned'))
          => /\ "configuration" \in reported'
             /\ UNCHANGED <<colNum, rowNum, squareSize, grid, objp, objMat>>]_vars

\* C21: the tick loop starts only after init() has resolved, never has more
\* than one scheduled tick callback, and every tick leaves exactly one
\* successor scheduled.
C21_OneTickScheduled ==
    [][/\ pending' <= 1
       /\ pending' >= 1 => inited'
       /\ op'.name = "draw" => pending' = 1]_vars

\* C22: in the novelty-gated controllers the pose history stays empty: no
\* evaluation accepts, nothing is captured, and a capture run asked for at
\* least one image never reaches its completion message.
C22_HistoryStaysEmpty ==
    version \in {"models", "hook"} =>
        /\ anglesHist = <<>>
        /\ objectPoints = <<>> /\ imagePoints = <<>>
        /\ captured = 0
        /\ \A k \in 1..Len(evals) : evals[k].tip # TipOk
        /\ ~op.accepted
        /\ numImages >= 1 => (pc # "done" /\ op.tip # TipComplete)

\* a capture run asked for two images has evaluated three poses, the last one
\* away from the first on every axis
C22_Witness ==
    /\ version = "hook"
    /\ numImages = 2
    /\ op.name = "grab" /\ op.outcome = "found"
    /\ Len(evals) = 3
    /\ evals[1].pose = Point(0, 0, 0, 1)
    /\ evals[3].pose = Point(15, 15, 15, 1)

\* C23: the parallel accumulators have equal length: objectPoints, imagePoints,
\* anglesHist and captured in models/camera.ts, objpointsMat and imgpointsMat
\* in the MatVector revision.
C23_AccumulatorsEqualLength ==
    /\ Len(objectPoints) = Len(imagePoints)
    /\ Len(objectPoints) = Len(anglesHist)
    /\ Len(objectPoints) = captured
    /\ Len(objpointsMat) = Len(imgpointsMat)

\* two samples have been pushed into both MatVectors
C23_Witness ==
    /\ version = "matvec"
    /\ op.name = "draw"
    /\ Len(objpointsMat) = 2 /\ Len(imgpointsMat) = 2

\* C24: once every stream request has settled, at most one acquired stream has
\* tracks that are not stopped, and it is the stream the controller references.
C24_OneLiveStream ==
    (version \in StreamVersions /\ requests = {}) =>
        /\ Cardinality(tracks) <= 1
        /\ tracks \subseteq {stream}

\* C25: every capture() call of the loop but the first follows an await of the
\* timer since the call before.
C25_TimerBetweenGrabs ==
    [][(version = "hook" /\ grabs' = grabs + 1 /\ grabs >= 1) => awaited]_vars

\* C26: a tick of the MatVector revision deletes a kept buffer only while it is
\* live, does not delete the buffers it keeps, and leaves prevGray and
\* prevCorners both null or both the live buffers of the latest tick that
\* found corners.
C26_KeptBuffersLive ==
    [][(version = "matvec" /\ op'.name = "draw") =>
          /\ prevGray' \in {"null", "live"}
          /\ prevCorners' = prevGray'
          /\ "prevGray" \in op'.released => prevGray = "live"
          /\ "prevCorners" \in op'.released => prevCorners = "live"
          /\ op'.outcome \in {"found", "solverfailed"} =>
               /\ prevGray' = "live"
               /\ {"gray", "corners"} \cap op'.released = {}
          /\ op'.outcome = "nocorners" => prevGray' = "null"
          /\ op'.outcome \in {"novideo", "throttled"} =>
               UNCHANGED <<prevGray, prevCorners>>]_vars

\* a tick that found corners deleted the buffers of the tick before and keeps
\* its own
C26_Witness ==
    /\ version = "matvec"
    /\ op.name = "draw" /\ op.outcome = "found"
    /\ {"prevGray", "prevCorners"} \subseteq op.released
    /\ prevGray = "live" /\ prevCorners = "live"

\* C27: a tick without a video frame returns before the throttle is consulted:
\* it acquires nothing and leaves the throttle timestamps and the session
\* unchanged.
C27_NoVideoTickNoOp ==
    [][(op'.name = "draw" /\ op'.outcome = "novideo") =>
          /\ op'.acquired = {}
          /\ op'.released = {}
          /\ ~op'.emitted
          /\ op'.calibrated = 0
          /\ UNCHANGED <<lastTime, lastDrawTime, SessionState>>]_vars

\* a tick without a frame at a time at which the throttle would have fired
C27_Witness ==
    /\ version = "matvec"
    /\ op.name = "draw" /\ op.outcome = "novideo"
    /\ now > lastTime
    /\ triggerAllows(now, lastTime, fps)

\* C28: fed the same timestamps with the same fps, the inline throttle and
\* createTrigger let the same calls through and hold the same last-fire
\* timestamp after every call.
C28_ThrottlesAgree ==
    version = "throttle" =>
        /\ \A k \in 1..Len(calls) : calls[k].r = calls[k].inline
        /\ lastTime = lastDrawTime

\* both let a call through exactly one interval after the one before, and both
\* held a call back
C28_Witness ==
    /\ version = "throttle"
    /\ fps > 0
    /\ \E k \in 1..Len(calls) : ~calls[k].r /\ ~calls[k].inline
    /\ \E j, k \in 1..Len(calls) :
         /\ j < k
         /\ calls[j].r /\ calls[k].r /\ calls[k].inline
         /\ (calls[k].t - calls[j].t) * fps = 1000

====
